---------------------------- MODULE Spec2Model ----------------------------
(***************************************************************************)
(* EventPulse: the extractor (src/src/extract_events.py) and the metrics   *)
(* and report engine (src/src/analyzer.py) as a state machine.             *)
(*                                                                         *)
(* Conventions of the model                                                *)
(*  - text is a sequence of one-character strings, so that Python's        *)
(*    substring test, upper(), lower() and len() are computed, not assumed *)
(*  - a spreadsheet cell is a record [k, s, n]: k is "nan" (empty), "str"  *)
(*    (text s), "num" (number n) or "date" (date n, written yyyymmdd)      *)
(*  - None / NaN / NaT of a numeric or date field is the value None        *)
(*  - decimals are fixed point: rates in tenths of a percent, money in     *)
(*    cents, score points in thousandths; Python's round() is              *)
(*    round-half-even on the exact quotient (binary floating point error   *)
(*    is not modelled)                                                     *)
(***************************************************************************)
EXTENDS Integers, Sequences, FiniteSets, TLC

(***************************************************************************)
(* Bounds of the model.                                                    *)
(***************************************************************************)
\* largest number of workbooks in the input directory
MaxFiles == 3
\* largest number of events in a dataset handed directly to the analyzer
MaxEvents == 3
\* largest number of rows of a sheet scanned on its own
MaxRows == 2

(***************************************************************************)
(* Values.                                                                 *)
(***************************************************************************)
\* Python None, pandas NaN / NaT in a numeric or date field
None == -1

Min(S) == CHOOSE x \in S : \A y \in S : x <= y
Max(S) == CHOOSE x \in S : \A y \in S : x >= y

RECURSIVE SumSeq(_)
SumSeq(s) == IF s = <<>> THEN 0 ELSE Head(s) + SumSeq(Tail(s))

\* round(num / den) to the nearest integer, ties to the even one (den > 0, num >= 0)
RoundHalfEven(num, den) ==
    LET q == num \div den
        r == num % den
    IN  IF 2 * r < den THEN q
        ELSE IF 2 * r > den THEN q + 1
        ELSE IF q % 2 = 0 THEN q ELSE q + 1

\* floor of the square root of x >= 0
RECURSIVE SqrtIter(_, _, _)
SqrtIter(x, lo, hi) ==
    IF lo >= hi THEN lo
    ELSE LET mid == (lo + hi + 1) \div 2
         IN  IF mid <= 46340 /\ mid * mid <= x
             THEN SqrtIter(x, mid, hi) ELSE SqrtIter(x, lo, mid - 1)

ISqrt(x) == SqrtIter(x, 0, 46340)

(***************************************************************************)
(* Text.                                                                   *)
(***************************************************************************)
LowerLetters ==
    <<"a","b","c","d","e","f","g","h","i","j","k","l","m",
      "n","o","p","q","r","s","t","u","v","w","x","y","z">>
UpperLetters ==
    <<"A","B","C","D","E","F","G","H","I","J","K","L","M",
      "N","O","P","Q","R","S","T","U","V","W","X","Y","Z">>
DigitChars == <<"0","1","2","3","4","5","6","7","8","9">>

UpperChar(c) ==
    IF \E i \in 1..26 : LowerLetters[i] = c
    THEN UpperLetters[CHOOSE i \in 1..26 : LowerLetters[i] = c] ELSE c
LowerChar(c) ==
    IF \E i \in 1..26 : UpperLetters[i] = c
    THEN LowerLetters[CHOOSE i \in 1..26 : UpperLetters[i] = c] ELSE c

\* str.upper(), str.lower()
Upper(s) == [i \in 1..Len(s) |-> UpperChar(s[i])]
Lower(s) == [i \in 1..Len(s) |-> LowerChar(s[i])]

\* sub in s
Contains(s, sub) ==
    \E i \in 0..(Len(s) - Len(sub)) : SubSeq(s, i + 1, i + Len(sub)) = sub

\* s.endswith(suffix)
EndsWith(s, suffix) ==
    /\ Len(s) >= Len(suffix)
    /\ SubSeq(s, Len(s) - Len(suffix) + 1, Len(s)) = suffix

\* str(n) of a non-negative integer
RECURSIVE StrOfNat(_)
StrOfNat(n) ==
    IF n < 10 THEN <<DigitChars[n + 1]>>
    ELSE StrOfNat(n \div 10) \o <<DigitChars[(n % 10) + 1]>>

\* n as exactly w digits
RECURSIVE Pad(_, _)
Pad(n, w) == IF w = 0 THEN <<>> ELSE Pad(n \div 10, w - 1) \o <<DigitChars[(n % 10) + 1]>>

\* str(ts) of a date held as yyyymmdd: "yyyy-mm-dd 00:00:00"
StrOfDate(d) ==
    Pad(d \div 10000, 4) \o <<"-">> \o Pad((d \div 100) % 100, 2) \o <<"-">>
      \o Pad(d % 100, 2) \o <<" ","0","0",":","0","0",":","0","0">>

\* ts.strftime('%Y-%m-%d')
StrfYmd(d) ==
    Pad(d \div 10000, 4) \o <<"-">> \o Pad((d \div 100) % 100, 2) \o <<"-">>
      \o Pad(d % 100, 2)

\* ts.strftime('%b %Y') keeps the month and the year: held as yyyymm
StrfMonthYear(d) == d \div 100

\* the order of characters, for the characters of a formatted date
CharRank(c) ==
    IF c = "-" THEN 0 ELSE 1 + (CHOOSE d \in 0..9 : DigitChars[d + 1] = c)

\* a < b for two texts, as Python compares str
RECURSIVE StrLess(_, _)
StrLess(a, b) ==
    IF b = <<>> THEN FALSE
    ELSE IF a = <<>> THEN TRUE
    ELSE IF Head(a) = Head(b) THEN StrLess(Tail(a), Tail(b))
    ELSE CharRank(Head(a)) < CharRank(Head(b))

\* the literals of the source
S_Event == <<"E","v","e","n","t">>
S_NaN == <<"N","a","N">>
S_EventDate == <<"E","v","e","n","t"," ","D","a","t","e">>
S_TOTAL == <<"T","O","T","A","L">>
S_RSVP == <<"R","S","V","P">>
S_RawTickets == <<"R","a","w"," ","T","i","c","k","e","t","s">>
S_OverallTotal == <<"O","v","e","r","a","l","l"," ","T","o","t","a","l">>
S_xlsx == <<".","x","l","s","x">>
S_EventManagement ==
    <<"E","v","e","n","t"," ","M","a","n","a","g","e","m","e","n","t">>
S_nan == <<"n","a","n">>

(***************************************************************************)
(* Cells and sheets: what pd.read_excel(..., header=None) hands over.      *)
(***************************************************************************)
NanCell == [k |-> "nan", s |-> <<>>, n |-> 0]
StrCell(t) == [k |-> "str", s |-> t, n |-> 0]
NumCell(v) == [k |-> "num", s |-> <<>>, n |-> v]
DateCell(d) == [k |-> "date", s |-> <<>>, n |-> d]

\* pd.notna(val)
NotNa(c) == c.k # "nan"

\* str(val)
StrOf(c) ==
    CASE c.k = "str" -> c.s
      [] c.k = "num" -> StrOfNat(c.n)
      [] c.k = "date" -> StrOfDate(c.n)
      [] OTHER -> S_nan

\* str(val) if pd.notna(val) else ''
CellText(c) == IF NotNa(c) THEN StrOf(c) ELSE <<>>

\* a sheet that pd.read_excel cannot read (no such sheet) and one it can
NoSheet == [present |-> FALSE, rows |-> <<>>]
Sheet(rows) == [present |-> TRUE, rows |-> rows]

\* len(df) and len(df.columns)
NRows(sh) == Len(sh.rows)
NCols(sh) == IF Len(sh.rows) = 0 THEN 0 ELSE Len(sh.rows[1])

\* df.iloc[i, j], i and j counted from 0 as in the source
At(sh, i, j) == sh.rows[i + 1][j + 1]

(***************************************************************************)
(* extract_events.py: the four sheet scans.                                *)
(***************************************************************************)
\* the dtype pandas gives column k of a sheet read with header=None: int64
\* when every cell is a whole number, float64 when every cell is a number or
\* empty, object otherwise
ColumnDtype(sh, k) ==
    IF \A i \in 0..(NRows(sh) - 1) : At(sh, i, k).k = "num" THEN "int64"
    ELSE IF \A i \in 0..(NRows(sh) - 1) : At(sh, i, k).k \in {"num", "nan"}
         THEN "float64"
    ELSE "object"

\* isinstance(val, (int, float)) for val = budget.iloc[i, k]: the scalar of an
\* int64 column is a numpy.int64, which is neither an int nor a float; that
\* of a float64 column is a float, that of an object column the cell's own
\* int or float
IsNumber(sh, i, k) == At(sh, i, k).k = "num" /\ ColumnDtype(sh, k) # "int64"

\* the cell names a total: 'Overall Total' in cell or 'TOTAL' in cell.upper()
IsTotalLabel(c) ==
    \/ Contains(CellText(c), S_OverallTotal)
    \/ Contains(Upper(CellText(c)), S_TOTAL)

\* the inner loop over k in range(j+1, min(j+5, ncols)): the first number above
\* 100 to the right of cell (i, j), or None
BudgetRightOf(sh, i, j) ==
    LET ks == {k \in (j + 1)..(Min({j + 5, NCols(sh)}) - 1) :
                  /\ NotNa(At(sh, i, k))
                  /\ IsNumber(sh, i, k)
                  /\ At(sh, i, k).n > 100}
    IN  IF ks = {} THEN None ELSE At(sh, i, Min(ks)).n

\* the scan leaves both loops at the first label cell, in row-major order,
\* that found a total; a label with no such number to its right is passed over
extract_budget_data(sh) ==
    IF ~sh.present THEN None
    ELSE LET C == NCols(sh)
             hits == {p \in 0..(NRows(sh) * C - 1) :
                         /\ IsTotalLabel(At(sh, p \div C, p % C))
                         /\ BudgetRightOf(sh, p \div C, p % C) # None}
         IN  IF hits = {} THEN None
             ELSE BudgetRightOf(sh, Min(hits) \div C, Min(hits) % C)

Categories ==
    <<"Freshman", "Sophomore", "Junior", "Senior", "Graduate", "Alumni", "Other">>
CategorySet == {Categories[i] : i \in 1..Len(Categories)}

\* {} and None: both false where the source tests a demographics value
NoDemographics == <<>>

\* the if / elif chain over the lower-cased cell: the one category a cell
\* counts for, or "" when it counts for none
CategoryOfCell(c) ==
    LET val == IF NotNa(c) THEN Lower(StrOf(c)) ELSE <<>>
    IN  IF Contains(val, <<"f","r","e","s","h","m","a","n">>) THEN "Freshman"
        ELSE IF \/ Contains(val, <<"s","o","p","h","m","o","r","e">>)
                \/ Contains(val, <<"s","o","p","h","o","m","o","r","e">>) THEN "Sophomore"
        ELSE IF Contains(val, <<"j","u","n","i","o","r">>) THEN "Junior"
        ELSE IF Contains(val, <<"s","e","n","i","o","r">>) THEN "Senior"
        ELSE IF \/ Contains(val, <<"g","r","a","d","u","a","t","e">>)
                \/ Contains(val, <<"g","r","a","d">>)
                \/ Contains(val, <<"m","a","s","t","e","r","s">>)
                \/ Contains(val, <<"p","h","d">>) THEN "Graduate"
        ELSE IF Contains(val, <<"a","l","u","m","n","i">>) THEN "Alumni"
        ELSE ""

\* sum(demographics.values())
DemoTotal(d) ==
    LET RECURSIVE Acc(_)
        Acc(i) == IF i = 0 THEN 0 ELSE d[Categories[i]] + Acc(i - 1)
    IN  IF DOMAIN d = {} THEN 0 ELSE Acc(Len(Categories))

\* the sparse-data threshold of extract_demographics
MinDemoTotal == 5

\* extract_demographics as it would be if a total of 5 were enough
extract_demographics_from5(sh) ==
    IF ~sh.present THEN NoDemographics
    ELSE LET C == NCols(sh)
             cats == {<<p, CategoryOfCell(At(sh, p \div C, p % C))>> :
                         p \in 0..(NRows(sh) * C - 1)}
             Count(cat) == Cardinality({c \in cats : c[2] = cat})
             counted ==
                 [Freshman |-> Count("Freshman"), Sophomore |-> Count("Sophomore"),
                  Junior |-> Count("Junior"), Senior |-> Count("Senior"),
                  Graduate |-> Count("Graduate"), Alumni |-> Count("Alumni"),
                  Other |-> 0]
         IN  IF DemoTotal(counted) >= MinDemoTotal
             THEN counted ELSE NoDemographics

extract_demographics(sh) ==
    IF ~sh.present THEN NoDemographics
    ELSE LET C == NCols(sh)
             cats == {<<p, CategoryOfCell(At(sh, p \div C, p % C))>> :
                         p \in 0..(NRows(sh) * C - 1)}
             Count(cat) == Cardinality({c \in cats : c[2] = cat})
             counted ==
                 [Freshman |-> Count("Freshman"), Sophomore |-> Count("Sophomore"),
                  Junior |-> Count("Junior"), Senior |-> Count("Senior"),
                  Graduate |-> Count("Graduate"), Alumni |-> Count("Alumni"),
                  Other |-> 0]
         IN  IF DemoTotal(counted) > MinDemoTotal
             THEN counted ELSE NoDemographics

\* no event name found
NoName == <<>>

\* the test a cell passes to become the event name
IsNameCell(c) ==
    /\ NotNa(c) /\ c.k = "str" /\ Len(c.s) > 3
    /\ ~Contains(StrOf(c), S_Event) /\ ~Contains(StrOf(c), S_NaN)

\* rows 0..4 and columns 0..2 of the overview: the first cell that passes
ScanEventName(sh) ==
    LET R == Min({5, NRows(sh)})
        C == Min({3, NCols(sh)})
        hits == {p \in 0..(R * C - 1) : IsNameCell(At(sh, p \div C, p % C))}
    IN  IF hits = {} THEN NoName ELSE At(sh, Min(hits) \div C, Min(hits) % C).s

\* the test a cell passes to become the event date
IsDateCell(sh, i, j) ==
    /\ NotNa(At(sh, i, j))
    /\ \/ At(sh, i, j).k = "date"
       \/ Contains(IF j > 0 THEN StrOf(At(sh, i, j - 1)) ELSE <<>>, S_EventDate)

\* 'if event_date:' on the value found
Truthy(c) ==
    CASE c.k = "str" -> c.s # <<>>
      [] c.k = "num" -> c.n # 0
      [] c.k = "date" -> TRUE
      [] OTHER -> FALSE

\* the date scan: in each row the first passing cell is taken and the row is
\* left; the scan ends at the first row whose value is true, and a value that
\* is false (a number 0) is kept only until a later row finds another
RECURSIVE ScanEventDate(_, _, _)
ScanEventDate(sh, i, found) ==
    IF i >= NRows(sh) THEN found
    ELSE LET js == {j \in 0..(NCols(sh) - 1) : IsDateCell(sh, i, j)}
             val == IF js = {} THEN found ELSE At(sh, i, Min(js))
         IN  IF Truthy(val) THEN val ELSE ScanEventDate(sh, i + 1, val)

\* int(x): a number, or a text of digits; anything else raises
IsDigits(s) ==
    /\ s # <<>>
    /\ \A i \in 1..Len(s) : \E d \in 1..10 : DigitChars[d] = s[i]
RECURSIVE NatOfStr(_)
NatOfStr(s) ==
    IF s = <<>> THEN 0
    ELSE 10 * NatOfStr(SubSeq(s, 1, Len(s) - 1))
           + (CHOOSE d \in 0..9 : DigitChars[d + 1] = s[Len(s)])
IntRaises(c) == ~(c.k = "num" \/ (c.k = "str" /\ IsDigits(c.s)))
IntOf(c) == IF c.k = "num" THEN c.n ELSE NatOfStr(c.s)

\* the two 'if j + d < len(rsvp.columns) and pd.notna(...)' reads to the right
\* of a matching cell (i, j), applied to the pair st = <<registered, attended,
\* raised>>; the first read that raises ends the scan with what was set so far
ReadRight(sh, i, j, st) ==
    LET has1 == j + 1 < NCols(sh) /\ NotNa(At(sh, i, j + 1))
        has2 == j + 2 < NCols(sh) /\ NotNa(At(sh, i, j + 2))
    IN  IF st[3] THEN st
        ELSE IF has1 /\ IntRaises(At(sh, i, j + 1)) THEN <<st[1], st[2], TRUE>>
        ELSE LET reg == IF has1 THEN IntOf(At(sh, i, j + 1)) ELSE st[1]
             IN  IF has2 /\ IntRaises(At(sh, i, j + 2)) THEN <<reg, st[2], TRUE>>
                 ELSE <<reg, IF has2 THEN IntOf(At(sh, i, j + 2)) ELSE st[2], FALSE>>

IsTotalRsvpLabel(c) ==
    Contains(Upper(CellText(c)), S_TOTAL) /\ Contains(Upper(CellText(c)), S_RSVP)
IsRawTicketsLabel(c) == Contains(CellText(c), S_RawTickets)

\* the RSVP scan from cell p on, in row-major order
RECURSIVE ScanRsvp(_, _, _)
ScanRsvp(sh, p, st) ==
    IF p >= NRows(sh) * NCols(sh) \/ st[3] THEN st
    ELSE LET i == p \div NCols(sh)
             j == p % NCols(sh)
             s1 == IF IsTotalRsvpLabel(At(sh, i, j)) THEN ReadRight(sh, i, j, st) ELSE st
             s2 == IF IsRawTicketsLabel(At(sh, i, j)) THEN ReadRight(sh, i, j, s1) ELSE s1
         IN  ScanRsvp(sh, p + 1, s2)

\* a workbook: its file name and its four sheets
Book(fname, overview, rsvp, budget, attendees) ==
    [filename |-> fname, Overview |-> overview, Rsvp |-> rsvp,
     Budget |-> budget, Attendees |-> attendees]

\* the date of an event record: the catalogue's date values are date cells
DateValue(c) == IF c.k = "date" THEN c.n ELSE None

\* extract_event_from_workbook: [ok |-> FALSE] is the None returned when the
\* overview sheet cannot be read; a missing RSVP sheet only leaves the
\* attendance unset
extract_event_from_workbook(wb) ==
    IF ~wb.Overview.present
    THEN [ok |-> FALSE, name |-> NoName, date |-> None, expected |-> None,
          actual |-> None, budget |-> None, demographics |-> NoDemographics]
    ELSE LET att == IF wb.Rsvp.present
                    THEN ScanRsvp(wb.Rsvp, 0, <<None, None, FALSE>>)
                    ELSE <<None, None, TRUE>>
         IN  [ok |-> TRUE,
              name |-> ScanEventName(wb.Overview),
              date |-> DateValue(ScanEventDate(wb.Overview, 0, NanCell)),
              expected |-> att[1],
              actual |-> att[2],
              budget |-> extract_budget_data(wb.Budget),
              demographics |-> extract_demographics(wb.Attendees)]

KW_CulturalFestival ==
    { <<"g","a","r","b","a">>, <<"d","i","w","a","l","i">>,
      <<"h","o","l","i">>, <<"n","a","v","r","a","t","r","i">> }
KW_CulturalShow ==
    { <<"b","o","l","l","y","w","o","o","d">>, <<"b","l","a","c","k","o","u","t">>,
      <<"m","e","h","n","d","i">>, <<"s","a","n","g","e","e","t">> }
KW_Formal ==
    { <<"f","o","r","m","a","l">>, <<"d","i","n","n","e","r">>,
      <<"b","a","n","q","u","e","t">>, <<"g","a","l","a">> }
KW_Social ==
    { <<"s","i","m","a">>, <<"m","a","t","c","h","m","a","k","i","n","g">>,
      <<"d","a","t","i","n","g">> }
KW_Professional ==
    { <<"w","o","r","k","s","h","o","p">>, <<"c","a","r","e","e","r">>,
      <<"p","r","o","f","e","s","s","i","o","n","a","l">>,
      <<"n","e","t","w","o","r","k","i","n","g">> }
KW_Sports ==
    { <<"s","p","o","r","t","s">>, <<"c","r","i","c","k","e","t">>,
      <<"v","o","l","l","e","y","b","a","l","l">>,
      <<"t","o","u","r","n","a","m","e","n","t">> }
KW_Welcome ==
    { <<"w","e","l","c","o","m","e">>, <<"f","r","e","s","h","e","r","s">>,
      <<"o","r","i","e","n","t","a","t","i","o","n">> }

\* any(x in name_lower for x in [...])
AnyIn(kws, name_lower) == \E x \in kws : Contains(name_lower, x)

determine_event_type(event_name) ==
    IF event_name = NoName THEN "Other"
    ELSE LET name_lower == Lower(event_name)
         IN  IF AnyIn(KW_CulturalFestival, name_lower) THEN "Cultural Festival"
             ELSE IF AnyIn(KW_CulturalShow, name_lower) THEN "Cultural Show"
             ELSE IF AnyIn(KW_Formal, name_lower) THEN "Formal"
             ELSE IF AnyIn(KW_Social, name_lower) THEN "Social"
             ELSE IF AnyIn(KW_Professional, name_lower) THEN "Professional"
             ELSE IF AnyIn(KW_Sports, name_lower) THEN "Sports"
             ELSE IF AnyIn(KW_Welcome, name_lower) THEN "Welcome"
             ELSE "Cultural"

\* filename.endswith('.xlsx') and 'Event Management' in filename
IsMatchingFile(filename) ==
    EndsWith(filename, S_xlsx) /\ Contains(filename, S_EventManagement)

(***************************************************************************)
(* Sorting.  sorted() is stable.  DataFrame.sort_values is numpy's         *)
(* quicksort, which sorts the short arrays of this model by insertion and  *)
(* so keeps rows with equal dates in their order; NaT rows go last.        *)
(***************************************************************************)
\* x placed into the sorted sequence t after every element of t that is not
\* greater than it
RECURSIVE PlaceByDate(_, _)
PlaceByDate(t, x) ==
    IF t = <<>> THEN <<x>>
    ELSE IF x.date # None /\ (Head(t).date = None \/ x.date < Head(t).date)
         THEN <<x>> \o t
         ELSE <<Head(t)>> \o PlaceByDate(Tail(t), x)

\* df.sort_values('Date'): dates ascending, NaT last
RECURSIVE SortByDate(_)
SortByDate(seq) ==
    IF seq = <<>> THEN <<>>
    ELSE PlaceByDate(SortByDate(SubSeq(seq, 1, Len(seq) - 1)), seq[Len(seq)])

RECURSIVE PlaceByDateText(_, _)
PlaceByDateText(t, x) ==
    IF t = <<>> THEN <<x>>
    ELSE IF StrLess(x.date, Head(t).date) THEN <<x>> \o t
    ELSE <<Head(t)>> \o PlaceByDateText(Tail(t), x)

\* sorted(summary['events'], key=lambda x: x['date'])
RECURSIVE SortByDateText(_)
SortByDateText(seq) ==
    IF seq = <<>> THEN <<>>
    ELSE PlaceByDateText(SortByDateText(SubSeq(seq, 1, Len(seq) - 1)), seq[Len(seq)])

(***************************************************************************)
(* extract_events.py: the normalized dataset.                              *)
(***************************************************************************)
\* a row of the Events sheet, from an event of extract_all_events
EventRow(e) ==
    [name |-> e.name, date |-> e.date, type |-> e.type,
     expected |-> e.expected, actual |-> e.actual, budget |-> e.budget]

\* no file at the path
NoFile == [exists |-> FALSE, Events |-> <<>>, Demographics |-> NoDemographics]

\* save_compiled_data: the file it leaves at output_path, given the file
\* that was there; with no events it returns before writing anything
save_compiled_data(events, demographics, old) ==
    IF events = <<>> THEN old
    ELSE [exists |-> TRUE,
          Events |-> SortByDate([i \in 1..Len(events) |-> EventRow(events[i])]),
          Demographics |-> demographics]

(***************************************************************************)
(* analyzer.py: the summary.  A data frame df is the sequence of rows of   *)
(* the Events sheet (at least one row: the extractor writes no empty       *)
(* sheet).  pandas' sum, mean, min, max and idxmax skip NaN.               *)
(***************************************************************************)
Rows(df) == 1..Len(df)

\* df[col].sum() for the attendance columns
SumActual(df) ==
    SumSeq([i \in Rows(df) |-> IF df[i].actual = None THEN 0 ELSE df[i].actual])
SumExpected(df) ==
    SumSeq([i \in Rows(df) |-> IF df[i].expected = None THEN 0 ELSE df[i].expected])
\* df['Total Budget'].sum(), in dollars
SumBudget(df) ==
    SumSeq([i \in Rows(df) |-> IF df[i].budget = None THEN 0 ELSE df[i].budget])

\* the row's 'Attendance Rate' is NaN: a value is missing, or it is 0 / 0
RateIsNaN(r) ==
    r.expected = None \/ r.actual = None \/ (r.expected = 0 /\ r.actual = 0)

\* the exception building one entry of events_detail raises, "" for none, in
\* the order the entry's values are computed: NaT.strftime, int(NaN) for the
\* expected and for the actual attendance, then the two divisions
RowFailure(r) ==
    IF r.date = None THEN "ValueError"
    ELSE IF r.expected = None THEN "ValueError"
    ELSE IF r.actual = None THEN "ValueError"
    ELSE IF r.expected = 0 THEN "ZeroDivisionError"
    ELSE IF r.budget # None /\ r.actual = 0 THEN "ZeroDivisionError"
    ELSE ""

\* the exception prepare_data_summary raises on df, "" when it completes:
\* min() of an all-NaT Date column has no strftime; idxmax() of an all-NaN
\* column finds no row; then the first row whose detail entry fails
PrepareFailure(df) ==
    IF \A i \in Rows(df) : df[i].date = None THEN "AttributeError"
    ELSE IF \A i \in Rows(df) : df[i].actual = None THEN "ValueError"
    ELSE IF \A i \in Rows(df) : RateIsNaN(df[i]) THEN "ValueError"
    ELSE IF \E i \in Rows(df) : RowFailure(df[i]) # ""
         THEN RowFailure(df[Min({i \in Rows(df) : RowFailure(df[i]) # ""})])
    ELSE ""

\* df[col].value_counts().to_dict() of the event types
TypeCounts(df) ==
    [t \in {df[i].type : i \in Rows(df)} |->
        Cardinality({i \in Rows(df) : df[i].type = t})]

\* df['Actual Attendance'].idxmax(): the first row holding the maximum
IdxMaxActual(df) ==
    LET present == {i \in Rows(df) : df[i].actual # None}
    IN  Min({i \in present : \A j \in present : df[j].actual <= df[i].actual})

\* df['Attendance Rate'].idxmax(): the first row holding the largest
\* actual / expected, rows compared exactly (expected > 0 in both)
IdxMaxRate(df) ==
    Min({i \in Rows(df) :
            \A j \in Rows(df) :
                df[j].actual * df[i].expected <= df[i].actual * df[j].expected})

\* one entry of events_detail: rates in tenths of a percent, money in cents
EventDetail(r) ==
    LET base == [name |-> r.name, type |-> r.type, date |-> StrfYmd(r.date),
                 expected |-> r.expected, actual |-> r.actual,
                 attendance_rate |-> RoundHalfEven(1000 * r.actual, r.expected)]
    IN  IF r.budget # None
        THEN base @@ [budget |-> 100 * r.budget,
                      cost_per_attendee |-> RoundHalfEven(100 * r.budget, r.actual)]
        ELSE base

\* the financial metrics as they would be present if every row had to have a
\* budget
BudgetFieldsPresent_all(df) == \A i \in Rows(df) : df[i].budget # None

\* the financial metrics of the summary, present when some row has a budget
BudgetFieldsPresent(df) == \E i \in Rows(df) : df[i].budget # None

\* the financial metrics as they would be if the averages were taken over
\* the budgeted rows only
BudgetFields_budgeted(df) ==
    LET total_budget == SumBudget(df)
        budgeted == {i \in Rows(df) : df[i].budget # None}
        budgetedActual ==
            SumSeq([i \in Rows(df) |-> IF i \in budgeted THEN df[i].actual ELSE 0])
    IN  [total_budget |-> 100 * total_budget,
         avg_budget_per_event |->
             RoundHalfEven(100 * total_budget, Cardinality(budgeted)),
         cost_per_attendee |-> RoundHalfEven(100 * total_budget, budgetedActual),
         avg_cost_per_attendee |-> RoundHalfEven(100 * total_budget, budgetedActual)]

\* total_budget, avg_budget_per_event, cost_per_attendee and
\* avg_cost_per_attendee, in cents
BudgetFields(df) ==
    LET total_budget == SumBudget(df)
        budgeted == {i \in Rows(df) : df[i].budget # None}
        budgetedActual ==
            SumSeq([i \in Rows(df) |-> IF i \in budgeted THEN df[i].actual ELSE 0])
    IN  [total_budget |-> 100 * total_budget,
         avg_budget_per_event |-> RoundHalfEven(100 * total_budget, Len(df)),
         cost_per_attendee |-> RoundHalfEven(100 * total_budget, SumActual(df)),
         avg_cost_per_attendee |-> RoundHalfEven(100 * total_budget, budgetedActual)]

(***************************************************************************)
(* analyzer.py: the engagement score, in thousandths of a point.           *)
(***************************************************************************)
\* the attendance rate score as it would be without the 40-point branch
AttScore_uncapped(att_rate) ==
    IF att_rate >= 750 THEN 30000 + (att_rate - 750) * 100
    ELSE IF att_rate >= 650 THEN 20000 + (att_rate - 650) * 100
    ELSE Max({0, att_rate * 30})

\* 1. attendance rate score, of the rate in tenths of a percent
AttScore(att_rate) ==
    IF att_rate >= 850 THEN 40000
    ELSE IF att_rate >= 750 THEN 30000 + (att_rate - 750) * 100
    ELSE IF att_rate >= 650 THEN 20000 + (att_rate - 650) * 100
    ELSE Max({0, att_rate * 30})

\* np.std(rates) in thousandths of a percent, of rates in tenths: the
\* population deviation sqrt(n * sum(r^2) - sum(r)^2) / n, the root taken to
\* a fortieth of a tenth; 20000 stands for every deviation of 20 or more
StdDev(rates) ==
    LET n == Len(rates)
        D == n * SumSeq([i \in 1..n |-> rates[i] * rates[i]])
               - SumSeq(rates) * SumSeq(rates)
    IN  IF D >= 40000 * n * n THEN 20000
        ELSE (5 * ISqrt(1600 * D)) \div (2 * n)

\* 2. consistency score
ConsistencyScore(rates) ==
    IF Len(rates) > 1 THEN Max({0, 20000 - StdDev(rates)}) ELSE 15000

\* the growth score as it would be if the halves were compared by their sums
GrowthScore_sums(sorted_events) ==
    LET n == Len(sorted_events)
        mid == n \div 2
        S1 == SumSeq([i \in 1..mid |-> sorted_events[i].actual])
        S2 == SumSeq([i \in 1..(n - mid) |-> sorted_events[mid + i].actual])
    IN  IF n >= 2
        THEN IF S2 >= S1
             THEN IF S1 > 0
                  THEN IF 5 * (S2 - S1) >= S1 THEN 20000
                       ELSE 10000 + RoundHalfEven(50000 * (S2 - S1), S1)
                  ELSE 10000
             ELSE Max({0, 10000 - RoundHalfEven(50000 * (S1 - S2), S1)})
        ELSE 10000

\* 3. growth trend score, of the events sorted by date: first and second are
\* the two means S1 / m1 and S2 / m2, compared and divided exactly, the
\* quotient rounded to the thousandth
GrowthScore(sorted_events) ==
    LET n == Len(sorted_events)
        mid == n \div 2
        S1 == SumSeq([i \in 1..mid |-> sorted_events[i].actual])
        S2 == SumSeq([i \in 1..(n - mid) |-> sorted_events[mid + i].actual])
        m1 == mid
        m2 == n - mid
    IN  IF n >= 2
        THEN IF S2 * m1 >= S1 * m2
             THEN IF S1 > 0
                  THEN IF 5 * (S2 * m1 - S1 * m2) >= S1 * m2 THEN 20000
                       ELSE 10000 + RoundHalfEven(50000 * (S2 * m1 - S1 * m2), S1 * m2)
                  ELSE 10000
             ELSE Max({0, 10000 - RoundHalfEven(50000 * (S1 * m2 - S2 * m1), S1 * m2)})
        ELSE 10000

\* 4. efficiency score, of the cost per attendee in cents
EffScore(summary) ==
    IF "cost_per_attendee" \in DOMAIN summary /\ summary["cost_per_attendee"] > 0
    THEN LET cpa == summary["cost_per_attendee"]
         IN  IF cpa <= 300 THEN 20000
             ELSE IF cpa <= 500 THEN 18000
             ELSE IF cpa <= 1000 THEN 15000
             ELSE IF cpa <= 2000 THEN 10000
             ELSE Max({0, 20000 - cpa * 3})
    ELSE 12000

\* the grade of a score in thousandths
GradeOf(score) ==
    IF score >= 90000 THEN "A+"
    ELSE IF score >= 85000 THEN "A"
    ELSE IF score >= 80000 THEN "A-"
    ELSE IF score >= 75000 THEN "B+"
    ELSE IF score >= 70000 THEN "B"
    ELSE IF score >= 65000 THEN "B-"
    ELSE IF score >= 60000 THEN "C+"
    ELSE IF score >= 55000 THEN "C"
    ELSE IF score >= 50000 THEN "C-"
    ELSE "D"

\* round(x, 1) of thousandths, in tenths
Round1(x) == RoundHalfEven(x, 100)

\* calculate_engagement_score(df, summary): the score and the breakdown in
\* tenths of a point; the grade is taken from the sum before it is rounded
calculate_engagement_score(df, summary) ==
    LET att_score == AttScore(summary["attendance_rate"])
        rates == [i \in 1..Len(summary["events"]) |->
                     summary["events"][i].attendance_rate]
        consistency_score == ConsistencyScore(rates)
        growth_score == GrowthScore(SortByDateText(summary["events"]))
        eff_score == EffScore(summary)
        score == att_score + consistency_score + growth_score + eff_score
    IN  [score |-> Round1(score),
         grade |-> GradeOf(score),
         breakdown |-> [attendance |-> Round1(att_score),
                        consistency |-> Round1(consistency_score),
                        growth |-> Round1(growth_score),
                        efficiency |-> Round1(eff_score)]]

\* {k: int(v) for k, v in self.demographics.items() if v > 0}
PositiveOnly(d) == [k \in {c \in DOMAIN d : d[c] > 0} |-> d[k]]

\* the summary before the engagement score is added
SummaryBody(df, demographics) ==
    LET dates == {df[i].date : i \in {j \in Rows(df) : df[j].date # None}}
        base ==
            [total_events |-> Len(df),
             date_range |-> <<StrfMonthYear(Min(dates)), StrfMonthYear(Max(dates))>>,
             event_types |-> TypeCounts(df),
             avg_attendance |-> RoundHalfEven(10 * SumActual(df), Len(df)),
             total_attendees |-> SumActual(df),
             total_registered |-> SumExpected(df),
             attendance_rate |-> RoundHalfEven(1000 * SumActual(df), SumExpected(df)),
             best_performing_event |-> df[IdxMaxActual(df)].name,
             highest_attendance |-> df[IdxMaxActual(df)].actual,
             best_conversion_event |-> df[IdxMaxRate(df)].name,
             best_conversion_rate |->
                 RoundHalfEven(1000 * df[IdxMaxRate(df)].actual,
                               df[IdxMaxRate(df)].expected),
             events |-> [i \in Rows(df) |-> EventDetail(df[i])]]
        withBudget ==
            IF BudgetFieldsPresent(df) THEN base @@ BudgetFields(df) ELSE base
    IN  IF DOMAIN demographics # {}
        THEN withBudget @@ [demographics |-> PositiveOnly(demographics)]
        ELSE withBudget

\* prepare_data_summary(df) with self.demographics: the exception it raises
\* ("" for none) and the summary it returns
prepare_data_summary(df, demographics) ==
    IF PrepareFailure(df) # ""
    THEN [raises |-> PrepareFailure(df), summary |-> <<>>]
    ELSE LET summary == SummaryBody(df, demographics)
         IN  [raises |-> "",
              summary |-> summary @@
                  [engagement_score |-> calculate_engagement_score(df, summary)]]

\* generate_predictions(df), on a df whose summary was built
generate_predictions(df) ==
    [t \in {df[i].type : i \in Rows(df)} |->
        LET type_data == SelectSeq(df, LAMBDA r : r.type = t)
            budget_data == SelectSeq(type_data, LAMBDA r : r.budget # None)
            actuals == {type_data[i].actual : i \in Rows(type_data)}
            pred == [avg_attendance |-> RoundHalfEven(SumActual(type_data), Len(type_data)),
                     attendance_rate |->
                         RoundHalfEven(1000 * SumActual(type_data), SumExpected(type_data)),
                     sample_size |-> Len(type_data),
                     min_attendance |-> Min(actuals),
                     max_attendance |-> Max(actuals)]
        IN  IF budget_data # <<>>
            THEN pred @@
                 [avg_budget |-> RoundHalfEven(100 * SumBudget(budget_data), Len(budget_data)),
                  avg_cost_per_attendee |->
                      RoundHalfEven(100 * SumBudget(budget_data), SumActual(budget_data))]
            ELSE pred]

(***************************************************************************)
(* The workbooks of the model: nine concrete workbooks, each a file name   *)
(* and four sheets as pd.read_excel returns them.  Every date value is a   *)
(* date cell.                                                              *)
(***************************************************************************)
\* an Overview sheet: a title, the event name, the labelled event date
OverviewOf(name, date) ==
    Sheet(<< <<StrCell(<<"E","v","e","n","t"," ","P","l","a","n">>), NanCell>>,
             <<StrCell(name), NanCell>>,
             <<StrCell(<<"E","v","e","n","t"," ","D","a","t","e">>), DateCell(date)>> >>)

\* an RSVP Snapshot with one 'TOTAL RSVPs' row
RsvpOf(expected, actual) ==
    Sheet(<< <<StrCell(<<"N","a","m","e">>), StrCell(<<"R","S","V","P">>), StrCell(<<"C","a","m","e">>)>>,
             <<StrCell(<<"T","O","T","A","L"," ","R","S","V","P","s">>), expected, actual>> >>)

\* a Budget sheet with an item row and an 'Overall Total' row
BudgetOf(total) ==
    Sheet(<< <<StrCell(<<"F","o","o","d">>), NumCell(120), NanCell>>,
             <<StrCell(<<"O","v","e","r","a","l","l"," ","T","o","t","a","l">>), NanCell, NumCell(total)>> >>)

\* an Attendee Data sheet: one column of class years
AttendeesOf(years) == Sheet([i \in 1..Len(years) |-> <<StrCell(years[i])>>])

Y_Freshman == <<"F","r","e","s","h","m","a","n">>
Y_Sophmore == <<"S","o","p","h","m","o","r","e">>
Y_Junior == <<"J","u","n","i","o","r">>
Y_Senior == <<"S","e","n","i","o","r">>
Y_PhD == <<"P","h","D">>
Y_Alumni == <<"A","l","u","m","n","i">>

N_Garba == <<"G","a","r","b","a">>
N_Gala == <<"G","a","l","a">>
N_Holi == <<"H","o","l","i">>
N_Diwali == <<"D","i","w","a","l","i">>
N_Cricket == <<"C","r","i","c","k","e","t">>
N_Navratri == <<"N","a","v","r","a","t","r","i">>

\* '<name> Event Management.xlsx'
FileNameOf(name) == name \o <<" ">> \o S_EventManagement \o S_xlsx

SixYears == <<Y_Freshman, Y_Freshman, Y_Freshman, Y_Senior, Y_Senior, Y_Junior>>
FourYears == <<Y_Freshman, Y_Freshman, Y_Freshman, Y_Senior>>
OtherSixYears == <<Y_Sophmore, Y_Sophmore, Y_PhD, Y_Alumni, Y_Alumni, Y_Junior>>

\* A: expected 100, actual 90, budget 500, six attendees with a class year
BookA ==
    Book(FileNameOf(N_Garba), OverviewOf(N_Garba, 20240105),
         RsvpOf(NumCell(100), NumCell(90)), BudgetOf(500), AttendeesOf(SixYears))
\* B: expected 200, actual 150, no Budget sheet, four attendees (too few)
BookB ==
    Book(FileNameOf(N_Gala), OverviewOf(N_Gala, 20240210),
         RsvpOf(NumCell(200), NumCell(150)), NoSheet, AttendeesOf(FourYears))
\* C: expected 50, actual 50, budget 300, no Attendee Data sheet
BookC ==
    Book(FileNameOf(N_Holi), OverviewOf(N_Holi, 20240315),
         RsvpOf(NumCell(50), NumCell(50)), BudgetOf(300), NoSheet)
\* D: the date of A; a 'Raw Tickets' row after the 'TOTAL RSVPs' row
BookD ==
    Book(FileNameOf(N_Diwali), OverviewOf(N_Diwali, 20240105),
         Sheet(<< <<StrCell(<<"T","O","T","A","L"," ","R","S","V","P","s">>), NumCell(120), NumCell(70)>>,
                  <<StrCell(<<"R","a","w"," ","T","i","c","k","e","t","s">>), NumCell(100), NumCell(60)>> >>),
         NoSheet, AttendeesOf(OtherSixYears))
\* E: no actual attendance recorded; the only total is 90, not above 100
BookE ==
    Book(FileNameOf(N_Cricket), OverviewOf(N_Cricket, 20240210),
         RsvpOf(NumCell(80), NanCell),
         Sheet(<< <<StrCell(<<"T","o","t","a","l">>), NumCell(90)>> >>), NoSheet)
\* F: no cell of the Overview qualifies as the event name
BookF ==
    Book(FileNameOf(<<"M","i","x","e","r">>),
         Sheet(<< <<StrCell(<<"E","v","e","n","t"," ","P","l","a","n">>), NanCell>>,
                  <<StrCell(<<"E","v","e","n","t"," ","D","a","t","e">>), DateCell(20240120)>> >>),
         RsvpOf(NumCell(40), NumCell(30)), BudgetOf(200), AttendeesOf(SixYears))
\* G: no Overview sheet: the extraction of the workbook fails
BookG ==
    Book(FileNameOf(<<"P","i","c","n","i","c">>), NoSheet,
         RsvpOf(NumCell(40), NumCell(30)), BudgetOf(200), AttendeesOf(SixYears))
\* H: a workbook whose file name does not match
BookH ==
    Book(<<"H","o","l","i"," ","B","u","d","g","e","t",".","x","l","s","x">>, OverviewOf(N_Holi, 20240315),
         RsvpOf(NumCell(50), NumCell(50)), BudgetOf(300), AttendeesOf(SixYears))
\* I: no event date in the Overview
BookI ==
    Book(FileNameOf(N_Navratri),
         Sheet(<< <<StrCell(N_Navratri), NanCell>> >>),
         RsvpOf(NumCell(60), NumCell(45)), NoSheet, NoSheet)

\* the files of the model, by a short name, and the workbook each one is
FileIds == {"A", "B", "C", "D", "E", "F", "G", "H", "I"}
Workbook(id) ==
    CASE id = "A" -> BookA
      [] id = "B" -> BookB
      [] id = "C" -> BookC
      [] id = "D" -> BookD
      [] id = "E" -> BookE
      [] id = "F" -> BookF
      [] id = "G" -> BookG
      [] id = "H" -> BookH
      [] OTHER -> BookI

\* the listings os.listdir may return: the files of a directory of at most
\* MaxFiles files, in any order
Listings ==
    UNION {{l \in [1..n -> FileIds] : \A i, j \in 1..n : i # j => l[i] # l[j]} :
              n \in 0..MaxFiles}

(***************************************************************************)
(* extract_events.py: extract_all_events and main.                         *)
(***************************************************************************)
\* all_demographics[key] = all_demographics.get(key, 0) + val, for every key
AddDemographics(all, d) ==
    [key \in DOMAIN all \cup DOMAIN d |->
        (IF key \in DOMAIN all THEN all[key] ELSE 0)
          + (IF key \in DOMAIN d THEN d[key] ELSE 0)]

\* the event data of a workbook together with whether its file name matches
\* and with the type of its event name
WithType(matching, event_data) ==
    [matching |-> matching,
     event_data |-> event_data,
     type |-> determine_event_type(event_data.name)]

\* what the loop of extract_all_events computes from a file alone (the files
\* do not change while the extractor runs)
ExtractedFrom(wb) ==
    WithType(IsMatchingFile(wb.filename), extract_event_from_workbook(wb))

Extracted == [id \in FileIds |-> ExtractedFrom(Workbook(id))]

\* the body of the loop as it would be if the event name were not tested
ProcessExtracted_unnamed(acc, x) ==
    IF ~x.matching THEN acc
    ELSE IF x.event_data.ok
         THEN [events |->
                   Append(acc.events,
                          [name |-> x.event_data.name,
                           date |-> x.event_data.date,
                           expected |-> x.event_data.expected,
                           actual |-> x.event_data.actual,
                           budget |-> x.event_data.budget,
                           demographics |-> x.event_data.demographics,
                           type |-> x.type]),
               all_demographics |->
                   IF DOMAIN x.event_data.demographics # {}
                   THEN AddDemographics(acc.all_demographics,
                                        x.event_data.demographics)
                   ELSE acc.all_demographics]
         ELSE acc

\* the body of the loop of extract_all_events on acc = [events,
\* all_demographics], for a file from which x was extracted
ProcessExtracted(acc, x) ==
    IF ~x.matching THEN acc
    ELSE IF x.event_data.ok /\ x.event_data.name # NoName
         THEN [events |->
                   Append(acc.events,
                          [name |-> x.event_data.name,
                           date |-> x.event_data.date,
                           expected |-> x.event_data.expected,
                           actual |-> x.event_data.actual,
                           budget |-> x.event_data.budget,
                           demographics |-> x.event_data.demographics,
                           type |-> x.type]),
               all_demographics |->
                   IF DOMAIN x.event_data.demographics # {}
                   THEN AddDemographics(acc.all_demographics,
                                        x.event_data.demographics)
                   ELSE acc.all_demographics]
         ELSE acc

\* the loop of extract_all_events as it would be if a workbook without an
\* event name gave an event
ProcessFile_unnamed(acc, id) == ProcessExtracted_unnamed(acc, Extracted[id])

\* one pass of the loop of extract_all_events over the file id
ProcessFile(acc, id) == ProcessExtracted(acc, Extracted[id])

\* extract_all_events over a whole listing
RECURSIVE extract_all_events(_)
extract_all_events(listing) ==
    IF listing = <<>>
    THEN [events |-> <<>>, all_demographics |-> NoDemographics]
    ELSE ProcessFile(extract_all_events(SubSeq(listing, 1, Len(listing) - 1)),
                     listing[Len(listing)])

(***************************************************************************)
(* analyzer.py: loading, the narrative, the result document.               *)
(***************************************************************************)
\* load_event_data: None (loaded FALSE) when there is no file; else the
\* Events sheet and the first row of the Demographics sheet, if there is one
load_event_data(file) ==
    IF ~file.exists
    THEN [loaded |-> FALSE, df |-> <<>>, demographics |-> NoDemographics]
    ELSE [loaded |-> TRUE, df |-> file.Events, demographics |-> file.Demographics]

\* what the text-generation service may answer: a narrative, an empty text,
\* a message without content, or an error raised by the client
Responses == {"narrative", "empty", "no content", "service error"}

\* the insights value None
NoInsights == "<None>"

\* analyze_with_ai: response.choices[0].message.content, or None when the
\* call raised
analyze_with_ai(response) ==
    CASE response = "narrative" -> "narrative text"
      [] response = "empty" -> ""
      [] OTHER -> NoInsights

OrgName == "Society of Indian Americans"

\* the results dict save_results assembles; the run's clock reads 1
ResultDocument(insights, predictions, data_summary, demographics, engagement_score) ==
    LET results == [timestamp |-> 1,
                    org_name |-> OrgName,
                    data_summary |-> data_summary,
                    ai_insights |-> insights,
                    predictions |-> predictions]
        withDemo == IF DOMAIN demographics # {}
                    THEN results @@ [demographics |-> demographics]
                    ELSE results
    IN  withDemo @@ [engagement_score |-> engagement_score]

\* no file at the result path, and a result left by an earlier run
NoResult == [exists |-> FALSE, doc |-> <<>>]
EarlierResult ==
    [exists |-> TRUE,
     doc |-> [timestamp |-> 0, org_name |-> OrgName, data_summary |-> <<>>,
              ai_insights |-> "earlier narrative", predictions |-> <<>>]]

\* the parameters of calculate_engagement_score after self
EngagementScoreParams == <<"df", "summary">>

\* save_results as it would be if the results were written whatever the call
\* of calculate_engagement_score does
save_results_writing(insights, predictions, data_summary, demographics, old) ==
    [raises |-> "",
     file |-> [exists |-> TRUE,
               doc |-> ResultDocument(insights, predictions, data_summary,
                                      demographics,
                                      data_summary["engagement_score"])]]

\* save_results: the exception it raises ("" for none) and the file it leaves
\* at the result path.  self.calculate_engagement_score(data_summary) passes
\* one argument where two are required: the call raises TypeError, before
\* the output file is opened
save_results(insights, predictions, data_summary, demographics, old) ==
    LET args == <<data_summary>>
    IN  IF Len(args) # Len(EngagementScoreParams)
        THEN [raises |-> "TypeError", file |-> old]
        ELSE [raises |-> "",
              file |-> [exists |-> TRUE,
                        doc |-> ResultDocument(
                                    insights, predictions, data_summary,
                                    demographics,
                                    calculate_engagement_score(args[1], args[2]))]]

\* a dataset left by an earlier run of the extractor
EarlierDataset ==
    [exists |-> TRUE,
     Events |-> <<[name |-> N_Gala, date |-> 20231110, type |-> "Formal",
                   expected |-> 200, actual |-> 150, budget |-> None]>>,
     Demographics |-> NoDemographics]

(***************************************************************************)
(* Datasets handed directly to the analyzer: up to MaxEvents rows, sorted  *)
(* by date as the extractor writes them.                                   *)
(***************************************************************************)
\* <<expected, actual>> of a row
AttPairs ==
    {<<50, 50>>, <<100, 60>>, <<50, 60>>, <<50, 0>>, <<100, None>>}
\* the budget of a row, in dollars
BudgetVals == {None, 300, 5000}

SlotNames == <<N_Garba, N_Gala, N_Holi, N_Diwali, N_Cricket>>
SlotName(k) == SlotNames[((k - 1) % Len(SlotNames)) + 1]
SlotDate(k) == 20240100 + 5 * k

SampleDemographics ==
    [Freshman |-> 3, Sophomore |-> 0, Junior |-> 0, Senior |-> 3,
     Graduate |-> 0, Alumni |-> 0, Other |-> 0]

\* the dataset whose row k has the attendance att[k] and the budget bud[k]
Dataset(att, bud) ==
    [exists |-> TRUE,
     Events |-> [k \in 1..Len(att) |->
                    [name |-> SlotName(k), date |-> SlotDate(k),
                     type |-> determine_event_type(SlotName(k)),
                     expected |-> att[k][1], actual |-> att[k][2],
                     budget |-> bud[k]]],
     Demographics |-> SampleDemographics]

(***************************************************************************)
(* The state.                                                              *)
(***************************************************************************)
VARIABLES
    listing,            \* os.listdir(data_folder): the files, in order
    pc,                 \* where the run stands
    idx,                \* the next file of the listing
    events,             \* extract_all_events: events
    all_demographics,   \* extract_all_events: all_demographics
    compiled,           \* the file data/compiled_events.xlsx
    results_file,       \* the file dashboard/data/analysis_results.json
    df,                 \* run_analysis: df
    demographics,       \* self.demographics
    data_summary,       \* run_analysis: data_summary
    predictions,        \* run_analysis: predictions
    insights,           \* run_analysis: insights
    response,           \* what the text-generation service answered
    outcome,            \* how the analyzer's run ended, "" while it runs
    dashboard,          \* run.py: what became of step 3, "" until run.py ends
    input,              \* a sheet scan run on its own: the sheet read
    result              \* a sheet scan run on its own: what the scan gave

vars == <<listing, pc, idx, events, all_demographics, compiled, results_file,
          df, demographics, data_summary, predictions, insights, response,
          outcome, dashboard, input, result>>

extractorVars == <<listing, idx, events, all_demographics>>
analyzerVars == <<df, demographics, data_summary, predictions, insights,
                  response, outcome>>

AnalyzerStart ==
    /\ df = <<>>
    /\ demographics = NoDemographics
    /\ data_summary = <<>>
    /\ predictions = <<>>
    /\ insights = NoInsights
    /\ response = ""
    /\ outcome = ""

\* the extractor starts on a directory; the two output files are absent or
\* left by an earlier run
Init ==
    /\ listing \in Listings
    /\ pc = "extract"
    /\ idx = 1
    /\ events = <<>>
    /\ all_demographics = NoDemographics
    /\ compiled \in {NoFile, EarlierDataset}
    /\ results_file \in {NoResult, EarlierResult}
    /\ AnalyzerStart
    /\ dashboard = ""
    /\ input = NoSheet
    /\ result = <<>>

\* the analyzer starts on a dataset
InitMetrics ==
    /\ listing = <<>>
    /\ pc = "load"
    /\ idx = 1
    /\ events = <<>>
    /\ all_demographics = NoDemographics
    /\ \E n \in 1..MaxEvents :
          \E att \in [1..n -> AttPairs], bud \in [1..n -> BudgetVals] :
              compiled = Dataset(att, bud)
    /\ results_file = NoResult
    /\ AnalyzerStart
    /\ dashboard = ""
    /\ input = NoSheet
    /\ result = <<>>

(***************************************************************************)
(* The extractor.                                                          *)
(***************************************************************************)
\* extract_all_events: one file of the listing
ExtractFile ==
    /\ pc = "extract"
    /\ idx <= Len(listing)
    /\ \E acc \in {ProcessFile([events |-> events,
                                 all_demographics |-> all_demographics],
                                listing[idx])} :
          /\ events' = acc.events
          /\ all_demographics' = acc.all_demographics
    /\ idx' = idx + 1
    /\ UNCHANGED <<listing, pc, compiled, results_file, analyzerVars, dashboard, input, result>>

\* main, after extract_all_events returned: the dataset is saved when there
\* are events; run.py then starts the analyzer
ExtractorMain ==
    /\ pc = "extract"
    /\ idx > Len(listing)
    /\ compiled' = IF events # <<>>
                   THEN save_compiled_data(events, all_demographics, compiled)
                   ELSE compiled
    /\ pc' = "load"
    /\ UNCHANGED <<extractorVars, results_file, analyzerVars, dashboard, input, result>>

(***************************************************************************)
(* The analyzer: run_analysis under main, which catches every exception.   *)
(***************************************************************************)
\* df = self.load_event_data(filepath); if df is None: return
AnalyzerLoad ==
    /\ pc = "load"
    /\ LET got == load_event_data(compiled)
       IN  /\ df' = got.df
           /\ demographics' = got.demographics
           /\ IF got.loaded
              THEN pc' = "summarize" /\ outcome' = outcome
              ELSE pc' = "done" /\ outcome' = "DataUnavailable"
    /\ UNCHANGED <<input, result, dashboard, extractorVars, compiled, results_file, data_summary,
                   predictions, insights, response>>

\* data_summary = self.prepare_data_summary(df);
\* predictions = self.generate_predictions(df)
AnalyzerSummarize ==
    /\ pc = "summarize"
    /\ LET got == prepare_data_summary(df, demographics)
       IN  IF got.raises = ""
           THEN /\ data_summary' = got.summary
                /\ predictions' = generate_predictions(df)
                /\ pc' = "ai"
                /\ outcome' = outcome
           ELSE /\ pc' = "done"
                /\ outcome' = got.raises
                /\ UNCHANGED <<data_summary, predictions>>
    /\ UNCHANGED <<input, result, dashboard, extractorVars, compiled, results_file, df, demographics,
                   insights, response>>

\* insights = self.analyze_with_ai(data_summary); if insights is None: return
AnalyzerAI ==
    /\ pc = "ai"
    /\ \E r \in Responses :
          /\ response' = r
          /\ insights' = analyze_with_ai(r)
          /\ IF analyze_with_ai(r) = NoInsights
             THEN pc' = "done" /\ outcome' = "TextGenerationFailure"
             ELSE pc' = "save" /\ outcome' = outcome
    /\ UNCHANGED <<input, result, dashboard, extractorVars, compiled, results_file, df, demographics,
                   data_summary, predictions>>

\* output_path = self.save_results(insights, predictions, data_summary)
AnalyzerSave ==
    /\ pc = "save"
    /\ LET got == save_results(insights, predictions, data_summary,
                               demographics, results_file)
       IN  /\ results_file' = got.file
           /\ outcome' = IF got.raises = "" THEN "Saved" ELSE got.raises
    /\ pc' = "done"
    /\ UNCHANGED <<input, result, dashboard, extractorVars, compiled, df, demographics, data_summary,
                   predictions, insights, response>>

NextAnalyzer == AnalyzerLoad \/ AnalyzerSummarize \/ AnalyzerAI \/ AnalyzerSave

(***************************************************************************)
(* run.py: the orchestrator, after the analyzer's process has ended.       *)
(***************************************************************************)
\* result.returncode of the analyzer's process: analyzer.py main runs
\* run_analysis under 'except Exception', and every way the run ends is a
\* return of run_analysis or an exception of that kind
returncode(how) ==
    IF how \in {"Saved", "DataUnavailable", "TextGenerationFailure", "TypeError",
                "ValueError", "ZeroDivisionError", "AttributeError"}
    THEN 0 ELSE 1

\* run.py main, from the test of the analyzer's return code on: a return
\* before step 3, or step 3, which opens dashboard/index.html if it is there
OrchestratorStep3 ==
    /\ pc = "done"
    /\ pc' = "finished"
    /\ IF returncode(outcome) = 0
       THEN \E dashboard_exists \in BOOLEAN :
               dashboard' = IF dashboard_exists THEN "opened" ELSE "not found"
       ELSE dashboard' = "not reached"
    /\ UNCHANGED <<input, result, extractorVars, compiled, results_file, analyzerVars>>

Next == ExtractFile \/ ExtractorMain \/ NextAnalyzer \/ OrchestratorStep3

\* the whole pipeline, from a directory of workbooks
Spec == Init /\ [][Next]_vars

\* the analyzer alone, from a dataset
SpecMetrics == InitMetrics /\ [][NextAnalyzer]_vars

(***************************************************************************)
(* The sheet scans of extract_events.py, each run on its own on a sheet of *)
(* up to MaxRows rows.                                                     *)
(***************************************************************************)

\* rows of an RSVP Snapshot: the two labels with both numbers, a label in the
\* middle and in the last column, a label with an empty cell to its right, a
\* label followed by a text that is no number, by a text of digits, no label
RsvpRows ==
    {<<StrCell(<<"T","O","T","A","L"," ","R","S","V","P","s">>), NumCell(120), NumCell(70)>>,
     <<StrCell(S_RawTickets), NumCell(100), NumCell(60)>>,
     <<StrCell(<<"N","a","m","e">>), StrCell(<<"T","o","t","a","l"," ","r","s","v","p","s">>), NumCell(80)>>,
     <<NanCell, NanCell, StrCell(S_RawTickets)>>,
     <<StrCell(S_RawTickets), NanCell, NumCell(55)>>,
     <<StrCell(<<"T","O","T","A","L"," ","R","S","V","P","s">>), StrCell(<<"T","B","D">>), NumCell(40)>>,
     <<StrCell(<<"T","O","T","A","L"," ","R","S","V","P","s">>), StrCell(<<"4","5">>), NumCell(44)>>,
     <<StrCell(<<"N","a","m","e">>), NumCell(5), NumCell(6)>>}

\* rows of a Budget sheet: a label with its total two cells on, with a number
\* of 100 or less before the total, with the total four cells on and a number
\* five cells on, with a number five cells on only, with exactly 100; an item
\* row; a label in the middle of the row; a label with the total next to it
BudgetRows ==
    {<<StrCell(S_OverallTotal), NanCell, NumCell(500), NanCell, NanCell, NanCell>>,
     <<StrCell(S_TOTAL), NumCell(90), NumCell(250), NanCell, NanCell, NanCell>>,
     <<StrCell(<<"S","u","b","t","o","t","a","l">>), NanCell, NanCell, NanCell, NumCell(300), NumCell(700)>>,
     <<StrCell(<<"T","o","t","a","l">>), NanCell, NanCell, NanCell, NanCell, NumCell(900)>>,
     <<StrCell(<<"T","o","t","a","l">>), StrCell(<<"T","B","D">>), NumCell(100), NanCell, NanCell, NanCell>>,
     <<StrCell(<<"F","o","o","d">>), NumCell(120), NanCell, NanCell, NanCell, NanCell>>,
     <<NanCell, NanCell, NanCell, StrCell(<<"T","o","t","a","l">>), NumCell(450), NanCell>>,
     <<StrCell(S_OverallTotal), NumCell(800), NanCell, NanCell, NanCell, NanCell>>}

\* rows of an Attendee Data sheet: three freshmen; a senior, an empty cell
\* and a cell of no category; cells that name two categories; the other
\* spellings; a row without a class year
AttendeeRows ==
    {<<StrCell(Y_Freshman), StrCell(Y_Freshman), StrCell(Y_Freshman)>>,
     <<StrCell(Y_Senior), NanCell, StrCell(<<"S","t","a","f","f">>)>>,
     <<StrCell(<<"J","u","n","i","o","r"," ","/"," ","S","e","n","i","o","r">>), StrCell(Y_Sophmore), StrCell(<<"S","o","p","h","o","m","o","r","e">>)>>,
     <<StrCell(<<"G","r","a","d"," ","a","l","u","m","n","i">>), StrCell(Y_Alumni), StrCell(Y_PhD)>>,
     <<StrCell(<<"F","R","E","S","H","M","A","N">>), StrCell(<<"M","a","s","t","e","r","s">>), NumCell(2024)>>,
     <<StrCell(<<"A","l","u","m","n","i"," ","(","s","e","n","i","o","r",")">>), StrCell(<<"N","a","m","e">>), NanCell>>}

\* a scan starts on a sheet of the workbook, or on a workbook without it
InitScans ==
    /\ listing = <<>>
    /\ idx = 1
    /\ events = <<>>
    /\ all_demographics = NoDemographics
    /\ compiled = NoFile
    /\ results_file = NoResult
    /\ AnalyzerStart
    /\ dashboard = ""
    /\ result = <<>>
    /\ \/ \E n \in 1..MaxRows :
             \/ pc = "rsvp" /\ \E rows \in [1..n -> RsvpRows] : input = Sheet(rows)
             \/ pc = "budget" /\ \E rows \in [1..n -> BudgetRows] : input = Sheet(rows)
             \/ pc = "demographics"
                   /\ \E rows \in [1..n -> AttendeeRows] : input = Sheet(rows)
       \/ pc \in {"budget", "demographics"} /\ input = NoSheet

\* extract_event_from_workbook: registered and attended after the scan of the
\* RSVP Snapshot, whether the scan ended or an exception left it
ScanRsvpSheet ==
    /\ pc = "rsvp"
    /\ \E st \in {ScanRsvp(input, 0, <<None, None, FALSE>>)} :
          result' = [registered |-> st[1], attended |-> st[2], raised |-> st[3]]
    /\ pc' = "rsvp_done"
    /\ UNCHANGED <<input, extractorVars, compiled, results_file, analyzerVars,
                   dashboard>>

\* budget = extract_budget_data(filepath)
ScanBudgetSheet ==
    /\ pc = "budget"
    /\ result' = [budget |-> extract_budget_data(input)]
    /\ pc' = "budget_done"
    /\ UNCHANGED <<input, extractorVars, compiled, results_file, analyzerVars,
                   dashboard>>

\* demographics = extract_demographics(filepath), and the aggregation of
\* extract_all_events into an aggregate that is still empty
ScanAttendeeSheet ==
    /\ pc = "demographics"
    /\ \E d \in {extract_demographics(input)} :
          result' = [demographics |-> d,
                     aggregate |-> IF DOMAIN d # {}
                                   THEN AddDemographics(NoDemographics, d)
                                   ELSE NoDemographics]
    /\ pc' = "demographics_done"
    /\ UNCHANGED <<input, extractorVars, compiled, results_file, analyzerVars,
                   dashboard>>

NextScans == ScanRsvpSheet \/ ScanBudgetSheet \/ ScanAttendeeSheet

SpecScans == InitScans /\ [][NextScans]_vars

(***************************************************************************)
(* The properties.                                                        *)
(***************************************************************************)
\* prepare_data_summary returned a summary in this run
Built == DOMAIN data_summary # {}

\* the engagement score of the summary
EngagementScore == data_summary["engagement_score"]

Abs(x) == IF x < 0 THEN -x ELSE x

\* the document a completed save_results leaves at the result path
ExpectedResult ==
    [exists |-> TRUE,
     doc |-> ResultDocument(insights, predictions, data_summary, demographics,
                            EngagementScore)]

\* C1: a run in which the dataset loads, the summary is built and the
\* text-generation service returns narrative text ends with the
\* ResultDocument at the result path, and every run ends either with a
\* persisted ResultDocument or with a failure that is data unavailability
\* or a text-generation failure.
C1_RunEndsPersistedOrAttributed ==
    pc = "done" =>
        /\ outcome \in {"Saved", "DataUnavailable", "TextGenerationFailure"}
        /\ (Built /\ response = "narrative") =>
               (outcome = "Saved" /\ results_file = ExpectedResult)

\* the rows of a data frame with both attendance values present
BothPresent(d) ==
    {i \in 1..Len(d) : d[i].expected # None /\ d[i].actual # None}
SomeAttendanceAbsent(d) == BothPresent(d) # 1..Len(d)

\* C2: on a dataset in which some event lacks its expected or its actual
\* attendance, prepare_data_summary completes, and the totals and the
\* overall attendance rate are taken over exactly the events that have both
\* values.
C2_AbsentAttendanceExcluded ==
    (pc \in {"ai", "save", "done"} /\ df # <<>> /\ SomeAttendanceAbsent(df)) =>
        /\ Built
        /\ LET attended == SumSeq([i \in 1..Len(df) |->
                              IF i \in BothPresent(df) THEN df[i].actual ELSE 0])
               registered == SumSeq([i \in 1..Len(df) |->
                              IF i \in BothPresent(df) THEN df[i].expected ELSE 0])
           IN  /\ data_summary["total_attendees"] = attended
               /\ data_summary["total_registered"] = registered
               /\ data_summary["attendance_rate"] =
                      RoundHalfEven(1000 * attended, registered)

\* C3: the score of every summary lies in [0, 100] and each component lies
\* within its cap: attendance in [0, 40], consistency, growth and efficiency
\* in [0, 20] (the values are in tenths of a point).
C3_ScoreWithinCaps ==
    Built =>
        /\ EngagementScore.score \in 0..1000
        /\ EngagementScore.breakdown.attendance \in 0..400
        /\ EngagementScore.breakdown.consistency \in 0..200
        /\ EngagementScore.breakdown.growth \in 0..200
        /\ EngagementScore.breakdown.efficiency \in 0..200

\* a summary whose attendance, growth and efficiency components are all at
\* their caps
C3_Witness ==
    /\ Built
    /\ EngagementScore.breakdown.attendance = 400
    /\ EngagementScore.breakdown.growth = 200
    /\ EngagementScore.breakdown.efficiency = 200

\* C4: the grade of every returned engagement score is the grade the table
\* of inclusive lower bounds assigns to the returned score.
C4_GradeOfReturnedScore ==
    Built => EngagementScore.grade = GradeOf(100 * EngagementScore.score)

\* C5: after an extractor run that found no events the dataset left for the
\* analyzer holds no events, and the analyzer run that follows ends with
\* data unavailable.
C5_NoEventsLeavesNoData ==
    /\ (pc # "extract" /\ events = <<>>) => compiled.Events = <<>>
    /\ (pc = "done" /\ events = <<>>) => outcome = "DataUnavailable"

\* the answers of the text-generation service that are failures
FailedResponses == {"empty", "no content", "service error"}

BudgetKeys == {"total_budget", "avg_budget_per_event", "cost_per_attendee"}
Budgeted(d) == {i \in 1..Len(d) : d[i].budget # None}

\* C7: a built summary holds total_budget, avg_budget_per_event and
\* cost_per_attendee when some event has a budget, and none of the three
\* when no event has one.
C7_BudgetFieldsIffBudget ==
    Built =>
        IF Budgeted(df) # {}
        THEN BudgetKeys \subseteq DOMAIN data_summary
        ELSE BudgetKeys \cap DOMAIN data_summary = {}

\* a summary with the budget fields, of a dataset in which one event has a
\* budget and another has none
C7_Witness ==
    /\ Built
    /\ BudgetKeys \subseteq DOMAIN data_summary
    /\ Budgeted(df) # {}
    /\ Budgeted(df) # 1..Len(df)

\* C8: with a budget on some event, total_budget is the sum of the budgets
\* present, avg_budget_per_event is total_budget over the number of all
\* events and cost_per_attendee is total_budget over the actual attendance
\* of all events (both to the nearest cent); the workbooks A, B and C give
\* total_budget 800.00, cost_per_attendee 2.76 and total_registered 350.
C8_BudgetMetrics ==
    (Built /\ Budgeted(df) # {}) =>
        LET total == 100 * SumSeq([i \in 1..Len(df) |->
                               IF i \in Budgeted(df) THEN df[i].budget ELSE 0])
            attendees == SumSeq([i \in 1..Len(df) |-> df[i].actual])
        IN  /\ data_summary["total_budget"] = total
            /\ 2 * Abs(data_summary["avg_budget_per_event"] * Len(df) - total)
                   <= Len(df)
            /\ 2 * Abs(data_summary["cost_per_attendee"] * attendees - total)
                   <= attendees
            /\ ({listing[k] : k \in 1..Len(listing)} = {"A", "B", "C"}) =>
                   /\ data_summary["total_budget"] = 80000
                   /\ data_summary["cost_per_attendee"] = 276
                   /\ data_summary["total_registered"] = 350

\* the summary of the workbooks A, B and C
C8_Witness ==
    /\ Built
    /\ {listing[k] : k \in 1..Len(listing)} = {"A", "B", "C"}
    /\ data_summary["total_events"] = 3
    /\ data_summary["total_budget"] = 80000

\* the orderings of a listing
Orderings(l) ==
    {p \in [1..Len(l) -> {l[k] : k \in 1..Len(l)}] :
        \A i, j \in 1..Len(l) : i # j => p[i] # p[j]}

\* the aggregate outputs of a summary
AggregateKeys ==
    {"total_events", "total_attendees", "total_registered", "attendance_rate",
     "avg_attendance", "total_budget", "avg_budget_per_event",
     "cost_per_attendee", "avg_cost_per_attendee", "demographics",
     "engagement_score"}
Aggregates(summary) ==
    [k \in AggregateKeys \cap DOMAIN summary |-> summary[k]]

\* the extractor and the analyzer run on the listing l, no file being there
\* before
RunOn(l) ==
    LET extracted == extract_all_events(l)
        file == save_compiled_data(extracted.events,
                                   extracted.all_demographics, NoFile)
        loaded == load_event_data(file)
    IN  [summary |-> prepare_data_summary(loaded.df, loaded.demographics),
         predictions |-> generate_predictions(loaded.df)]

\* C9: every ordering of the listing gives the aggregate outputs and the
\* predictions this run gave.
C9_OrderIndependent ==
    (pc = "ai" /\ events # <<>>) =>
        \A p \in Orderings(listing) :
            /\ RunOn(p).summary.raises = ""
            /\ Aggregates(RunOn(p).summary.summary) = Aggregates(data_summary)
            /\ RunOn(p).predictions = predictions

\* the files of the listing the loop has passed that match, and those among
\* them that gave event data with a name
PassedMatching == {k \in 1..(idx - 1) : Extracted[listing[k]].matching}
PassedNamed ==
    {k \in PassedMatching :
        /\ Extracted[listing[k]].event_data.ok
        /\ Extracted[listing[k]].event_data.name # NoName}
CountOf(d, c) == IF c \in DOMAIN d THEN d[c] ELSE 0

\* C10: during and after the loop of extract_all_events every event has a
\* name, there are no more events than matching files passed, the events
\* are exactly those of the files that gave a name, and the aggregate
\* demographics are the sums over those files alone.
C10_OnlyNamedEvents ==
    /\ \A i \in 1..Len(events) : events[i].name # NoName
    /\ Len(events) <= Cardinality(PassedMatching)
    /\ Len(events) = Cardinality(PassedNamed)
    /\ {events[i].name : i \in 1..Len(events)} =
           {Extracted[listing[k]].event_data.name : k \in PassedNamed}
    /\ \A c \in CategorySet :
           CountOf(all_demographics, c) =
               SumSeq([k \in 1..(idx - 1) |->
                          IF k \in PassedNamed
                          THEN CountOf(Extracted[listing[k]].event_data.demographics, c)
                          ELSE 0])

\* the loop has passed a workbook without a name, then a named one, then one
\* whose extraction fails
C10_Witness ==
    /\ listing = <<"F", "A", "G">>
    /\ idx = 4
    /\ Len(events) = 1
    /\ DemoTotal(all_demographics) = 6

\* every category listed in a demographics view has a count above zero
NoZeroCount(d) == \A c \in DOMAIN d : d[c] > 0

\* C11: no persisted or summarized demographics view lists a category with
\* an aggregated count of zero: not the Demographics sheet of the
\* normalized dataset, not the demographics entry of the summary, not the
\* demographics entry of the ResultDocument.
C11_NoZeroCategoryInViews ==
    /\ compiled.exists => NoZeroCount(compiled.Demographics)
    /\ (Built /\ "demographics" \in DOMAIN data_summary) =>
           NoZeroCount(data_summary["demographics"])
    /\ (results_file.exists /\ "demographics" \in DOMAIN results_file.doc) =>
           NoZeroCount(results_file.doc["demographics"])

\* C12: when the metrics stage fails (dataset unavailable, text-generation
\* failure, or an error while the results are built or saved) the
\* orchestrator stops before step 3, and the dashboard is opened only after
\* an analysis run that persisted a ResultDocument.
C12_FailureStopsBeforeDashboard ==
    pc = "finished" =>
        /\ outcome # "Saved" => dashboard = "not reached"
        /\ dashboard = "opened" => outcome = "Saved"

\* the positions, in scan order, of the cells that match either RSVP rule
RsvpMatches(sh) ==
    {p \in 0..(NRows(sh) * NCols(sh) - 1) :
        \/ IsTotalRsvpLabel(At(sh, p \div NCols(sh), p % NCols(sh)))
        \/ IsRawTicketsLabel(At(sh, p \div NCols(sh), p % NCols(sh)))}

\* the cell d places to the right of position p, empty where the row ends
RightOf(sh, p, d) ==
    IF (p % NCols(sh)) + d < NCols(sh)
    THEN At(sh, p \div NCols(sh), (p % NCols(sh)) + d)
    ELSE NanCell

\* the attendance a cell holds; a text that is no number holds none
AttendanceIn(c) == IF IntRaises(c) THEN None ELSE IntOf(c)

\* the value of the last matching cell that has a non-empty cell d to its right
LastSet(sh, d) ==
    LET ps == {p \in RsvpMatches(sh) : NotNa(RightOf(sh, p, d))}
    IN  IF ps = {} THEN None ELSE AttendanceIn(RightOf(sh, Max(ps), d))

\* C13: after the scan of the RSVP Snapshot, expected attendance is the cell
\* one to the right, and actual attendance the cell two to the right, of the
\* last cell in row-major order that contains TOTAL and RSVP (in any case)
\* or 'Raw Tickets' and has that cell non-empty; a field no matching cell
\* sets stays absent.
C13_LastMatchingCellWins ==
    pc = "rsvp_done" =>
        /\ result.registered = LastSet(input, 1)
        /\ result.attended = LastSet(input, 2)

\* the positions, in scan order, of the cells that name a total
TotalLabels(sh) ==
    {p \in 0..(NRows(sh) * NCols(sh) - 1) :
        IsTotalLabel(At(sh, p \div NCols(sh), p % NCols(sh)))}

\* where, among the up-to-4 cells right of position p, a number above 100 is
NumbersAbove100(sh, p) ==
    {d \in 1..4 : RightOf(sh, p, d).k = "num" /\ RightOf(sh, p, d).n > 100}

\* the first number above 100 right of the first label that has one
FirstTotal(sh) ==
    LET ls == {p \in TotalLabels(sh) : NumbersAbove100(sh, p) # {}}
    IN  IF ls = {} THEN None
        ELSE RightOf(sh, Min(ls), Min(NumbersAbove100(sh, Min(ls)))).n

\* C14: extract_budget_data returns the first numeric value above 100 among
\* the up-to-4 cells to the right of the first cell, in row-major order,
\* that contains 'Overall Total' or, upper-cased, 'TOTAL' and has such a
\* value; no later label is considered, a value of 100 or less is never
\* returned, and with no such cell the budget is absent.
C14_FirstTotalAbove100 ==
    pc = "budget_done" => result.budget = FirstTotal(input)

\* g tenths is the tenth nearest to num / den tenths
Near(g, num, den) == 2 * Abs(g * den - num) <= den

\* the growth component of the summary is what the comparison of the mean
\* actual attendance of the first floor(n/2) rows of df with that of the
\* remaining rows gives, where fromZero is the value for a first mean of 0
\* and a second mean above 0
GrowthIs(g, fromZero) ==
    LET n == Len(df)
        mid == n \div 2
        S1 == SumSeq([i \in 1..mid |-> df[i].actual])
        S2 == SumSeq([i \in 1..(n - mid) |-> df[mid + i].actual])
        den == S1 * (n - mid)
        up == S2 * mid - S1 * (n - mid)
    IN  IF n < 2 THEN g = 100
        ELSE IF up = 0 THEN g = 100
        ELSE IF up > 0
             THEN IF S1 = 0 THEN g = fromZero
                  ELSE IF 500 * up >= 100 * den THEN g = 200
                  ELSE Near(g, 100 * den + 500 * up, den)
        ELSE IF 500 * (-up) >= 100 * den THEN g = 0
             ELSE Near(g, 100 * den - 500 * (-up), den)

\* C15 as stated: for n >= 2 events in date order the growth component is
\* min(20, 10 + 0.5 x percentage increase) when the mean of the second half
\* is at least that of the first floor(n/2) events, otherwise
\* max(0, 10 - 0.5 x percentage decrease); equal means give 10, fewer than 2
\* events give 10.  An increase from a first mean of 0 is an increase beyond
\* every percentage, for which the formula gives its cap of 20.
C15_GrowthOfHalves ==
    Built => GrowthIs(EngagementScore.breakdown.growth, 200)

\* C15 amended: as stated, except that the growth component is 10 whenever
\* the mean of the first half is 0.
C15_GrowthOfHalvesZeroBase ==
    Built => GrowthIs(EngagementScore.breakdown.growth, 100)

\* three events, the first with nobody attending and the two later ones
\* attended: the growth component is 10
C15_Witness ==
    /\ Built
    /\ Len(df) = 3
    /\ df[1].actual = 0
    /\ df[2].actual > 0
    /\ EngagementScore.breakdown.growth = 100

\* the categories in their order of precedence, each with its spellings
Precedence ==
    << <<"Freshman", {<<"f","r","e","s","h","m","a","n">>}>>,
       <<"Sophomore", {<<"s","o","p","h","m","o","r","e">>,
                       <<"s","o","p","h","o","m","o","r","e">>}>>,
       <<"Junior", {<<"j","u","n","i","o","r">>}>>,
       <<"Senior", {<<"s","e","n","i","o","r">>}>>,
       <<"Graduate", {<<"g","r","a","d","u","a","t","e">>, <<"g","r","a","d">>,
                      <<"m","a","s","t","e","r","s">>, <<"p","h","d">>}>>,
       <<"Alumni", {<<"a","l","u","m","n","i">>}>> >>

\* the places of Precedence a cell's text names
Named(c) ==
    {i \in 1..Len(Precedence) :
        \E kw \in Precedence[i][2] : Contains(Lower(CellText(c)), kw)}

\* the number of cells of the sheet counted for a category: a cell counts
\* for the first category of Precedence it names, and for no other
CellsOf(sh, cat) ==
    Cardinality({p \in 0..(NRows(sh) * NCols(sh) - 1) :
        LET ns == Named(At(sh, p \div NCols(sh), p % NCols(sh)))
        IN  ns # {} /\ Precedence[Min(ns)][1] = cat})

CountsOf(sh) == [cat \in CategorySet |-> CellsOf(sh, cat)]

\* C16: extract_demographics counts every cell for at most one category, the
\* first it names in the order freshman, sophomore/sophmore, junior, senior,
\* graduate/grad/masters/phd, alumni, and returns the counts only when their
\* sum exceeds 5; with a sum of 5 or fewer the demographics are absent and
\* add nothing to the aggregate.
C16_CountsAboveFive ==
    pc = "demographics_done" =>
        IF SumSeq([i \in 1..Len(Categories) |-> CellsOf(input, Categories[i])]) > 5
        THEN /\ result.demographics = CountsOf(input)
             /\ result.aggregate = CountsOf(input)
        ELSE /\ result.demographics = NoDemographics
             /\ result.aggregate = NoDemographics

\* three freshman cells and one senior cell: the demographics are absent
C16_Witness ==
    /\ pc = "demographics_done"
    /\ CellsOf(input, "Freshman") = 3
    /\ CellsOf(input, "Senior") = 1
    /\ SumSeq([i \in 1..Len(Categories) |-> CellsOf(input, Categories[i])]) = 4
    /\ result.demographics = NoDemographics
    /\ result.aggregate = NoDemographics

\* costs per attendee, in cents, on both sides of every threshold of the
\* efficiency score
CostsPerAttendee ==
    {100, 300, 301, 500, 501, 1000, 1001, 1500, 2000, 2001, 2100, 3334, 5000,
     6667, 7000}

\* the summary with another cost per attendee and nothing else changed
WithCost(summary, cpa) == [summary EXCEPT !["cost_per_attendee"] = cpa]

\* C17: of any two summaries with budget data that differ only in their cost
\* per attendee, the one with the higher cost per attendee never has the
\* higher efficiency score.
C17_EfficiencyNonIncreasing ==
    (Built /\ "cost_per_attendee" \in DOMAIN data_summary) =>
        \A c1, c2 \in CostsPerAttendee :
            c1 <= c2 => EffScore(WithCost(data_summary, c2))
                           <= EffScore(WithCost(data_summary, c1))

====
